---- MODULE Spec2Model ----
(***************************************************************************)
(* Model of tools/generate.py: the generator that scaffolds a new          *)
(* solution module (src/solutions/dayNN/mod.rs), patches the dispatch file *)
(* (src/main.rs) and appends a declaration to the module list              *)
(* (src/solutions/mod.rs).                                                 *)
(*                                                                         *)
(* Text is modelled as a sequence of tokens.  A token is a piece of        *)
(* literal text, a single space, or a single digit; string operations      *)
(* (strip, startswith, lower, format, concatenation) work on tokens the    *)
(* way Python works on characters.  A file is a sequence of lines, each    *)
(* a record [text, eol] where eol is the line terminator found on disk.    *)
(***************************************************************************)
EXTENDS Integers, Sequences, FiniteSets, TLC

VARIABLES
    \* ---- the file system the script runs against
    parentDir,      \* "missing" | "file" | "dir"   (args.parent_dir or "..")
    cargoLock,      \* BOOLEAN: parent_dir/Cargo.lock exists
    cargoToml,      \* BOOLEAN: parent_dir/Cargo.toml exists
    srcDir,         \* "missing" | "file" | "dir"   (parent_dir/src)
    solutionsDir,   \* BOOLEAN: src/solutions exists
    modDirs,        \* set of module names whose src/solutions/<mod_name> exists
    modRs,          \* module name -> content of <mod_name>/mod.rs, or NoFile
    mainRs,         \* content of src/main.rs, or NoFile
    solutionMod,    \* content of src/solutions/mod.rs, or NoFile
    \* ---- one invocation of the script
    day, title, noFmt,   \* parsed arguments
    pc,             \* position in the __main__ block
    exitStatus,     \* NoExit | 0 | 1
    output,         \* what was printed, in order
    existed,        \* mod_dir.exists() as seen at line 139
    answer,         \* what the operator typed at the prompt, or NoAnswer
    fmtExit,        \* return code of the formatter, or NoExit
    stepCount,      \* how often each mutating step ran in this invocation
    snap,           \* the files as they were when this invocation started
    hist,           \* the days of the earlier invocations that reached the append
    run,            \* number of this invocation
    \* ---- update_file taken alone, one loop iteration per step
    ufOrig,         \* the dispatch file as it was before the call
    ufFile,         \* the dispatch file on disk
    ufRead,         \* the lines the open file yields
    ufPos,          \* lines consumed by the for loop
    ufLines,        \* the list `lines`
    ufFound,        \* the flag `found`
    ufPc,           \* "open" | "loop" | "closed"
    \* ---- SOLUTION_TEMPLATE.format taken alone
    rnDay, rnTitle, rnOut, rnPc

mainVars == <<parentDir, cargoLock, cargoToml, srcDir, solutionsDir, modDirs,
              modRs, mainRs, solutionMod, day, title, noFmt, pc, exitStatus,
              output, existed, answer, fmtExit, stepCount, snap, hist, run>>
ufVars == <<ufOrig, ufFile, ufRead, ufPos, ufLines, ufFound, ufPc>>
rnVars == <<rnDay, rnTitle, rnOut, rnPc>>
vars == <<mainVars, ufVars, rnVars>>

(***************************************************************************)
(* Bounds                                                                  *)
(***************************************************************************)
LowDay == 1         \* a one-digit day the runs may ask for
HighDay == 12       \* a two-digit day the runs may ask for
MaxRuns == 2        \* invocations of the script on the same project
MaxLines == 3       \* lines of the dispatch file given to update_file alone
MaxDay == 25        \* days rendered by the template alone

\* a path that does not exist, and a file with its content
NoFile == [exists |-> FALSE, content |-> <<>>]

File(content) == [exists |-> TRUE, content |-> content]

\* the process has not ended / the command has not run
NoExit == -1

\* the prompt: not asked, standard input closed, or a line typed
NoAnswer == [kind |-> "none", text |-> <<>>]

EOF == [kind |-> "eof", text |-> <<>>]

Typed(text) == [kind |-> "line", text |-> text]

(***************************************************************************)
(* Strings                                                                 *)
(***************************************************************************)
SP == " "

Digit(d) == <<"0", "1", "2", "3", "4", "5", "6", "7", "8", "9">>[d + 1]

RECURSIVE Str(_)
Str(n) == IF n < 10 THEN <<Digit(n)>> ELSE Str(n \div 10) \o <<Digit(n % 10)>>

\* the format spec `02`: pad with zeros on the left to width 2
Pad2(n) == IF Len(Str(n)) < 2 THEN <<"0">> \o Str(n) ELSE Str(n)

ModName(n) == <<"day">> \o Pad2(n)

StartsWith(s, prefix) ==
    /\ Len(s) >= Len(prefix)
    /\ SubSeq(s, 1, Len(prefix)) = prefix

RECURSIVE LStrip(_)
LStrip(s) == IF s # <<>> /\ Head(s) = SP THEN LStrip(Tail(s)) ELSE s

RECURSIVE RStrip(_)
RStrip(s) ==
    IF s # <<>> /\ s[Len(s)] = SP THEN RStrip(SubSeq(s, 1, Len(s) - 1)) ELSE s

\* str.strip() of a line: the terminator is whitespace and goes as well
Strip(s) == RStrip(LStrip(s))

LowerChar(c) ==
    CASE c = "Y" -> "y"
      [] c = "E" -> "e"
      [] c = "S" -> "s"
      [] c = "N" -> "n"
      [] c = "O" -> "o"
      [] OTHER -> c

Lower(s) == [i \in 1..Len(s) |-> LowerChar(s[i])]

Contains(text, pat) ==
    \E i \in 1..(Len(text) - Len(pat) + 1) : SubSeq(text, i, i + Len(pat) - 1) = pat

RECURSIVE Flatten(_)
Flatten(ss) == IF ss = <<>> THEN <<>> ELSE Head(ss) \o Flatten(Tail(ss))

(***************************************************************************)
(* Files as line sequences                                                 *)
(***************************************************************************)
Line(text, eol) == [text |-> text, eol |-> eol]

\* open(path, "r"): universal newlines, every terminator is read as "\n"
ReadLine(l) == Line(l.text, IF l.eol \in {"CRLF", "CR"} THEN "LF" ELSE l.eol)

ReadLines(file) == [i \in 1..Len(file) |-> ReadLine(file[i])]

\* open(path, "w", newline=nl): every "\n" written becomes nl
WriteLines(lines, nl) ==
    [i \in 1..Len(lines) |->
        Line(lines[i].text, IF lines[i].eol = "LF" THEN nl ELSE lines[i].eol)]

\* f.write(text) on a file opened for append: the text lands after the last
\* byte, so it continues a last line that has no terminator
AppendText(file, l) ==
    IF file # <<>> /\ file[Len(file)].eol = "NONE"
    THEN SubSeq(file, 1, Len(file) - 1)
            \o <<Line(file[Len(file)].text \o l.text, l.eol)>>
    ELSE file \o <<l>>

(***************************************************************************)
(* update_file                                                             *)
(***************************************************************************)
SENTINEL == <<"let result = match args.day">>

BEFORE == <<"_ =>">>

Indent8 == <<SP, SP, SP, SP, SP, SP, SP, SP>>

\* f"        {day} => solutions::{mod_name}::exec(input),\n"
DispatchArm(n) ==
    Line(Indent8 \o Str(n) \o <<" => solutions::">> \o ModName(n)
            \o <<"::exec(input),">>, "LF")

\* UpdateStep with the new line put after the marker line
UpdateStepAfter(st, line, sentinel, before, value) ==
    LET s == Strip(line.text)
        found == st.found \/ StartsWith(s, sentinel)
    IN  [found |-> found,
         lines |-> Append(st.lines, line)
                     \o (IF found /\ StartsWith(s, before) THEN <<value>> ELSE <<>>)]

\* UpdateStep without the test of `found`
UpdateStepUnarmed(st, line, sentinel, before, value) ==
    LET s == Strip(line.text)
        found == st.found \/ StartsWith(s, sentinel)
    IN  [found |-> found,
         lines |-> (IF StartsWith(s, before)
                    THEN Append(st.lines, value)
                    ELSE st.lines) \o <<line>>]

\* UpdateStep that stops looking once it has inserted
UpdateStepOnce(st, line, sentinel, before, value) ==
    LET s == Strip(line.text)
        found == st.found \/ StartsWith(s, sentinel)
        hit == found /\ StartsWith(s, before)
    IN  [found |-> found /\ ~hit,
         lines |-> (IF hit THEN Append(st.lines, value) ELSE st.lines) \o <<line>>]

\* one iteration of the for loop; st is [found, lines]
UpdateStep(st, line, sentinel, before, value) ==
    LET s == Strip(line.text)
        found == st.found \/ StartsWith(s, sentinel)
    IN  [found |-> found,
         lines |-> (IF found /\ StartsWith(s, before)
                    THEN Append(st.lines, value)
                    ELSE st.lines) \o <<line>>]

RECURSIVE UpdateLoop(_, _, _, _, _)
UpdateLoop(rd, st, sentinel, before, value) ==
    IF rd = <<>> THEN st
    ELSE UpdateLoop(Tail(rd), UpdateStep(st, Head(rd), sentinel, before, value),
                    sentinel, before, value)

UpdateFile(file, sentinel, before, value) ==
    WriteLines(UpdateLoop(ReadLines(file), [found |-> FALSE, lines |-> <<>>],
                          sentinel, before, value).lines, "LF")

\* the line texts the dispatch files of the update_file runs are made of
LineTexts ==
    { <<>>,
      <<"x">>,
      <<SP>> \o SENTINEL \o <<" {">>,
      <<"x">> \o SENTINEL,
      <<SP>> \o BEFORE \o <<" x">>,
      <<"x">> \o BEFORE }

Terminators == {"LF", "CRLF", "CR"}

\* a file is its bytes: "\r" directly before an empty "\n" line is the one
\* terminator "\r\n", and only the last line may lack a terminator
IsFile(f) ==
    /\ \A i \in 1..Len(f) :
        /\ f[i].eol = "NONE" => i = Len(f) /\ f[i].text # <<>>
        /\ i < Len(f) /\ f[i].eol = "CR" =>
                ~(f[i + 1].text = <<>> /\ f[i + 1].eol = "LF")

\* a line as it may stand in a dispatch file
DiskLines == {Line(t, e) : t \in LineTexts, e \in Terminators \cup {"NONE"}}

UfIdle ==
    /\ ufOrig = <<>> /\ ufFile = <<>> /\ ufRead = <<>> /\ ufPos = 0
    /\ ufLines = <<>> /\ ufFound = FALSE /\ ufPc = "idle"

\* with open(path, "r") as f: ... lines = []; found = False
UfOpen ==
    /\ ufPc = "open"
    /\ ufRead' = ReadLines(ufFile)
    /\ ufLines' = <<>>
    /\ ufFound' = FALSE
    /\ ufPos' = 0
    /\ ufPc' = "loop"
    /\ UNCHANGED <<ufOrig, ufFile>>

\* for line in f: ...
UfIter ==
    /\ ufPc = "loop"
    /\ ufPos < Len(ufRead)
    /\ LET st == UpdateStep([found |-> ufFound, lines |-> ufLines],
                            ufRead[ufPos + 1], SENTINEL, BEFORE,
                            DispatchArm(HighDay))
       IN  /\ ufFound' = st.found
           /\ ufLines' = st.lines
    /\ ufPos' = ufPos + 1
    /\ UNCHANGED <<ufOrig, ufFile, ufRead, ufPc>>

\* with open(path, "w", newline="\n") as f: f.writelines(lines)
UfWrite ==
    /\ ufPc = "loop"
    /\ ufPos = Len(ufRead)
    /\ ufFile' = WriteLines(ufLines, "LF")
    /\ ufPc' = "closed"
    /\ UNCHANGED <<ufOrig, ufRead, ufPos, ufLines, ufFound>>

(***************************************************************************)
(* SOLUTION_TEMPLATE and str.format                                        *)
(***************************************************************************)
DAY == "{day}"

TITLE == "{title}"

\* SOLUTION_TEMPLATE with the day left out of the heading
TemplateNoDayHeading ==
    << <<"//! Solution for Advent of Code ", "2", "0", "2", "3", ", Day ", DAY, ".">>,
       <<"//!">>,
       <<"//! # Day ", TITLE>>,
       <<"//!">>,
       <<"//! ## Part One">>,
       <<"//!">>,
       <<"//! ## Part Two">>,
       <<"//!">>,
       <<>>,
       <<"use std::path::Path;">>,
       <<>>,
       <<"use anyhow::Result;">>,
       <<>>,
       <<"fn part", "1", "() ", "{{">>,
       <<"    println!(\"Part ", "1", ": TODO\");">>,
       <<"}}">>,
       <<>>,
       <<"fn part", "2", "() ", "{{">>,
       <<"    println!(\"Part ", "2", ": TODO\");">>,
       <<"}}">>,
       <<>>,
       <<"/// Executes the solution with provided input file.">>,
       <<"pub fn exec<P: AsRef<Path>>(_path: P) -> Result<()> ", "{{">>,
       <<"    part", "1", "();">>,
       <<"    part", "2", "();">>,
       <<>>,
       <<"    unimplemented!()">>,
       <<"}}">> >>

\* the template, line by line (source lines 6 to 33); digits are tokens of
\* their own, "{{" and "}}" are the escaped braces of a format string
SOLUTION_TEMPLATE ==
    << <<"//! Solution for Advent of Code ", "2", "0", "2", "3", ", Day ", DAY, ".">>,
       <<"//!">>,
       <<"//! # Day ", DAY, TITLE>>,
       <<"//!">>,
       <<"//! ## Part One">>,
       <<"//!">>,
       <<"//! ## Part Two">>,
       <<"//!">>,
       <<>>,
       <<"use std::path::Path;">>,
       <<>>,
       <<"use anyhow::Result;">>,
       <<>>,
       <<"fn part", "1", "() ", "{{">>,
       <<"    println!(\"Part ", "1", ": TODO\");">>,
       <<"}}">>,
       <<>>,
       <<"fn part", "2", "() ", "{{">>,
       <<"    println!(\"Part ", "2", ": TODO\");">>,
       <<"}}">>,
       <<>>,
       <<"/// Executes the solution with provided input file.">>,
       <<"pub fn exec<P: AsRef<Path>>(_path: P) -> Result<()> ", "{{">>,
       <<"    part", "1", "();">>,
       <<"    part", "2", "();">>,
       <<>>,
       <<"    unimplemented!()">>,
       <<"}}">> >>

\* what str.format puts in place of one token of the format string
FormatToken(tok, dayText, titleText) ==
    CASE tok = DAY -> dayText
      [] tok = TITLE -> titleText
      [] tok = "{{" -> <<"{">>
      [] tok = "}}" -> <<"}">>
      [] OTHER -> <<tok>>

FormatLine(l, dayText, titleText) ==
    Flatten([i \in 1..Len(l) |-> FormatToken(l[i], dayText, titleText)])

\* title=f": {title}" if title else ""
TitleArg(t) == IF t = <<>> THEN <<>> ELSE <<": ">> \o t

\* SOLUTION_TEMPLATE.format(day=day, title=...)
Render(n, t) ==
    [i \in 1..Len(SOLUTION_TEMPLATE) |->
        FormatLine(SOLUTION_TEMPLATE[i], Str(n), TitleArg(t))]

\* title = args.title or "": no title and the empty title are both <<>>
Titles == {<<>>, <<"Trebuchet?!">>, <<"Cube ", "2">>, <<"1", "2">>}

RnIdle == rnDay = 0 /\ rnTitle = <<>> /\ rnOut = <<>> /\ rnPc = "idle"

\* f.write(SOLUTION_TEMPLATE.format(...)), taken alone
RnFormat ==
    /\ rnPc = "args"
    /\ rnOut' = Render(rnDay, rnTitle)
    /\ rnPc' = "rendered"
    /\ UNCHANGED <<rnDay, rnTitle>>

(***************************************************************************)
(* The script: helpers                                                     *)
(***************************************************************************)
\* confirm() that takes any answer beginning with "y"
ConfirmPrefix(choice) == StartsWith(Lower(choice), <<"y">>)

\* confirm(): input(...).lower() compared with "y" and "yes"
Confirm(choice) ==
    LET c == Lower(choice) IN c = <<"y">> \/ c = <<"y", "e", "s">>

\* validate_parent() that looks for Cargo.lock only
ValidateParentLockOnly(dir, lock, toml) ==
    IF dir # "dir" THEN "bail"
    ELSE IF ~lock THEN "bail"
    ELSE "ok"

\* validate_parent(): "ok", or the bail it ends in
ValidateParent(dir, lock, toml) ==
    IF dir # "dir" THEN "bail"
    ELSE IF ~lock THEN "bail"
    ELSE IF ~toml THEN "bail"
    ELSE "ok"

\* f"pub mod {mod_name};\n"
ModDecl(n) == Line(<<"pub mod ">> \o ModName(n) \o <<";">>, "LF")

Days == {LowDay, HighDay}

ModNames == {ModName(d) : d \in Days}

\* what the operator may type at the prompt; EOF is a closed standard input
Answers ==
    { Typed(t) : t \in { <<"y">>, <<"Y">>, <<"y", "e", "s">>, <<"Y", "E", "S">>,
                         <<>>, <<"n">>, <<"y", "e">>, <<"y", "e", "s", "!">> } }
        \cup {EOF}

Steps == {"create", "patch", "append", "format"}

NoSteps == [s \in Steps |-> 0]

Snapshot == [modDirs |-> modDirs, modRs |-> modRs, mainRs |-> mainRs,
             solutionMod |-> solutionMod]

\* a module written by hand before the script ever ran
HandWritten == File(<< <<"// work in progress">> >>)

\* dispatch files of the projects the script is run in
MainFiles ==
    { NoFile,
      File(<< Line(<<SP, SP>> \o SENTINEL \o <<" {">>, "LF"),
              Line(<<SP, SP, SP>> \o BEFORE \o <<" bail!(),">>, "LF"),
              Line(<<SP, SP, "};">>, "LF") >>),
      File(<< Line(<<SP, SP>> \o SENTINEL \o <<" {">>, "CRLF"),
              Line(<<SP, SP, SP>> \o BEFORE \o <<" bail!(),">>, "CRLF"),
              Line(<<SP, SP, "};">>, "NONE") >>),
      File(<< Line(<<"fn main() {}">>, "LF"),
              Line(BEFORE \o <<" x">>, "LF") >>) }

\* module lists of the projects the script is run in
ModLists ==
    { NoFile,
      File(<<>>),
      File(<< Line(<<"pub mod util;">>, "LF") >>),
      File(<< Line(<<"pub mod util;">>, "NONE") >>) }

\* the process ends with status `code`, after printing what is in `printed`:
\* sys.exit(code), the end of the script, or an exception nobody catches
\* (a "traceback" on stderr and status 1)
Exit(code, printed) ==
    /\ exitStatus' = code
    /\ output' = output \o printed
    /\ pc' = "exit"

\* bail(msg): print(f"error: {msg}"); sys.exit(1)
Bail == Exit(1, <<"error">>)

Bump(s) == [stepCount EXCEPT ![s] = @ + 1]

fsVars == <<parentDir, cargoLock, cargoToml, srcDir, solutionsDir, modDirs,
            modRs, mainRs, solutionMod>>
argVars == <<day, title, noFmt>>
runVars == <<snap, hist, run>>

(***************************************************************************)
(* The script: the __main__ block                                          *)
(***************************************************************************)
\* lines 122-125: parse_args, validate_parent
Validate ==
    /\ pc = "validate"
    /\ IF ValidateParent(parentDir, cargoLock, cargoToml) = "ok"
       THEN pc' = "check_src" /\ UNCHANGED <<exitStatus, output>>
       ELSE Bail
    /\ UNCHANGED <<fsVars, argVars, runVars, existed, answer, fmtExit, stepCount>>

\* lines 127-138: the paths, and the two checks of src
CheckSrc ==
    /\ pc = "check_src"
    /\ IF srcDir = "file" THEN Bail
       ELSE IF srcDir = "missing" THEN Bail
       ELSE pc' = "check_mod" /\ UNCHANGED <<exitStatus, output>>
    /\ UNCHANGED <<fsVars, argVars, runVars, existed, answer, fmtExit, stepCount>>

\* lines 139-142: the module exists already: warn and ask
CheckModule ==
    /\ pc = "check_mod"
    /\ existed' = (ModName(day) \in modDirs)
    /\ IF ModName(day) \in modDirs
       THEN \E a \in Answers :
               /\ answer' = a
               /\ IF a = EOF THEN Exit(1, <<"warning", "traceback">>)
                  ELSE IF ~Confirm(a.text) THEN Exit(0, <<"warning">>)
                  ELSE /\ pc' = "create"
                       /\ output' = Append(output, "warning")
                       /\ UNCHANGED exitStatus
       ELSE pc' = "create" /\ UNCHANGED <<answer, exitStatus, output>>
    /\ UNCHANGED <<fsVars, argVars, runVars, fmtExit, stepCount>>

\* lines 144-148: mod_dir.mkdir() and the write of mod.rs
CreateModule ==
    /\ pc = "create"
    /\ IF ModName(day) \in modDirs \/ ~solutionsDir
       THEN \* FileExistsError, or FileNotFoundError for the missing parent
            /\ Exit(1, <<"generating", "status", "traceback">>)
            /\ UNCHANGED <<modDirs, modRs, stepCount>>
       ELSE /\ modDirs' = modDirs \cup {ModName(day)}
            /\ modRs' = [modRs EXCEPT ![ModName(day)] = File(Render(day, title))]
            /\ stepCount' = Bump("create")
            /\ output' = output \o <<"generating", "status">>
            /\ pc' = "patch"
            /\ UNCHANGED exitStatus
    /\ UNCHANGED <<parentDir, cargoLock, cargoToml, srcDir, solutionsDir, mainRs,
                   solutionMod, argVars, runVars, existed, answer, fmtExit>>

\* lines 150-156: update_file on main.rs
PatchDispatch ==
    /\ pc = "patch"
    /\ IF mainRs = NoFile
       THEN \* FileNotFoundError from open(path, "r")
            /\ Exit(1, <<"status", "traceback">>)
            /\ UNCHANGED <<mainRs, stepCount>>
       ELSE /\ mainRs' = File(UpdateFile(mainRs.content, SENTINEL, BEFORE,
                                         DispatchArm(day)))
            /\ stepCount' = Bump("patch")
            /\ output' = Append(output, "status")
            /\ pc' = "append"
            /\ UNCHANGED exitStatus
    /\ UNCHANGED <<parentDir, cargoLock, cargoToml, srcDir, solutionsDir, modDirs,
                   modRs, solutionMod, argVars, runVars, existed, answer, fmtExit>>

\* the append placed before the patch of main.rs, which is then skipped
AppendBeforePatch ==
    /\ pc \in {"patch", "append"}
    /\ solutionMod' = File(AppendText(solutionMod.content, ModDecl(day)))
    /\ stepCount' = Bump("append")
    /\ output' = Append(output, "status")
    /\ pc' = "format"
    /\ UNCHANGED <<parentDir, cargoLock, cargoToml, srcDir, solutionsDir, modDirs,
                   modRs, mainRs, argVars, runVars, existed, answer, fmtExit,
                   exitStatus>>

\* lines 158-160: the append to solutions/mod.rs ("a+" creates the file)
AppendModuleList ==
    /\ pc = "append"
    /\ solutionMod' = File(AppendText(solutionMod.content, ModDecl(day)))
    /\ stepCount' = Bump("append")
    /\ output' = Append(output, "status")
    /\ pc' = "format"
    /\ UNCHANGED <<parentDir, cargoLock, cargoToml, srcDir, solutionsDir, modDirs,
                   modRs, mainRs, argVars, runVars, existed, answer, fmtExit,
                   exitStatus>>

\* the formatter run whatever --no-fmt says
FormatAlways ==
    /\ pc = "format"
    /\ \E rc \in {0, 1} :
          /\ fmtExit' = rc
          /\ stepCount' = Bump("format")
          /\ IF rc # 0 THEN Exit(1, <<"status", "error">>)
             ELSE /\ pc' = "finish"
                  /\ output' = Append(output, "status")
                  /\ UNCHANGED exitStatus
    /\ UNCHANGED <<fsVars, argVars, runVars, existed, answer>>

\* lines 162-164: run_command(["cargo", "fmt"]) unless --no-fmt.  The command
\* is external: its return code is any, and it rewrites no text the model
\* tracks (it only lays code out)
Format ==
    /\ pc = "format"
    /\ IF noFmt
       THEN pc' = "finish" /\ UNCHANGED <<fmtExit, stepCount, exitStatus, output>>
       ELSE \E rc \in {0, 1} :
               /\ fmtExit' = rc
               /\ stepCount' = Bump("format")
               /\ IF rc # 0 THEN Exit(1, <<"status", "error">>)
                  ELSE /\ pc' = "finish"
                       /\ output' = Append(output, "status")
                       /\ UNCHANGED exitStatus
    /\ UNCHANGED <<fsVars, argVars, runVars, existed, answer>>

\* lines 166-167: the closing messages; the script ends with status 0
Finish ==
    /\ pc = "finish"
    /\ Exit(0, <<"success">>)
    /\ UNCHANGED <<fsVars, argVars, runVars, existed, answer, fmtExit, stepCount>>

\* the operator runs the script again in the same project
NewRun ==
    /\ pc = "exit"
    /\ run < MaxRuns
    /\ run' = run + 1
    /\ hist' = IF stepCount["append"] > 0 THEN hist \cup {day} ELSE hist
    /\ day' \in Days
    /\ title' \in {<<>>, <<"Trebuchet?!">>}
    /\ noFmt' \in BOOLEAN
    /\ pc' = "validate"
    /\ exitStatus' = NoExit
    /\ output' = <<>>
    /\ existed' = FALSE
    /\ answer' = NoAnswer
    /\ fmtExit' = NoExit
    /\ stepCount' = NoSteps
    /\ snap' = Snapshot
    /\ UNCHANGED fsVars

MainIdle ==
    /\ parentDir = "missing" /\ cargoLock = FALSE /\ cargoToml = FALSE
    /\ srcDir = "missing" /\ solutionsDir = FALSE /\ modDirs = {}
    /\ modRs = [m \in ModNames |-> NoFile] /\ mainRs = NoFile
    /\ solutionMod = NoFile /\ day = 0 /\ title = <<>> /\ noFmt = FALSE
    /\ pc = "idle" /\ exitStatus = NoExit /\ output = <<>> /\ existed = FALSE
    /\ answer = NoAnswer /\ fmtExit = NoExit /\ stepCount = NoSteps
    /\ snap = Snapshot /\ hist = {} /\ run = 0

\* the projects the script may be started in
InitFs ==
    /\ parentDir \in {"missing", "file", "dir"}
    /\ cargoLock \in BOOLEAN
    /\ cargoToml \in BOOLEAN
    /\ srcDir \in {"missing", "file", "dir"}
    /\ solutionsDir \in BOOLEAN
    /\ mainRs \in MainFiles
    /\ solutionMod \in ModLists
    /\ modDirs \in {{}, {ModName(LowDay)}}
    /\ modRs = [m \in ModNames |-> IF m \in modDirs THEN HandWritten ELSE NoFile]
    /\ parentDir # "dir" => ~cargoLock /\ ~cargoToml /\ srcDir = "missing"
    /\ srcDir # "dir" => ~solutionsDir /\ mainRs = NoFile
    /\ ~solutionsDir => modDirs = {} /\ solutionMod = NoFile

Init ==
    /\ InitFs
    /\ day \in Days
    /\ title \in {<<>>, <<"Trebuchet?!">>}
    /\ noFmt \in BOOLEAN
    /\ pc = "validate"
    /\ exitStatus = NoExit
    /\ output = <<>>
    /\ existed = FALSE
    /\ answer = NoAnswer
    /\ fmtExit = NoExit
    /\ stepCount = NoSteps
    /\ snap = Snapshot
    /\ hist = {}
    /\ run = 1
    /\ UfIdle
    /\ RnIdle

Next ==
    \/ Validate /\ UNCHANGED <<ufVars, rnVars>>
    \/ CheckSrc /\ UNCHANGED <<ufVars, rnVars>>
    \/ CheckModule /\ UNCHANGED <<ufVars, rnVars>>
    \/ CreateModule /\ UNCHANGED <<ufVars, rnVars>>
    \/ PatchDispatch /\ UNCHANGED <<ufVars, rnVars>>
    \/ AppendModuleList /\ UNCHANGED <<ufVars, rnVars>>
    \/ Format /\ UNCHANGED <<ufVars, rnVars>>
    \/ Finish /\ UNCHANGED <<ufVars, rnVars>>
    \/ NewRun /\ UNCHANGED <<ufVars, rnVars>>

Spec == Init /\ [][Next]_vars

(***************************************************************************)
(* update_file alone, on every small dispatch file                         *)
(***************************************************************************)
InitUpdate ==
    /\ \E n \in 0..MaxLines : ufOrig \in [1..n -> DiskLines]
    /\ IsFile(ufOrig)
    /\ ufFile = ufOrig
    /\ ufRead = <<>>
    /\ ufPos = 0
    /\ ufLines = <<>>
    /\ ufFound = FALSE
    /\ ufPc = "open"
    /\ MainIdle
    /\ RnIdle

NextUpdate ==
    \/ UfOpen /\ UNCHANGED <<mainVars, rnVars>>
    \/ UfIter /\ UNCHANGED <<mainVars, rnVars>>
    \/ UfWrite /\ UNCHANGED <<mainVars, rnVars>>

SpecUpdate == InitUpdate /\ [][NextUpdate]_vars

(***************************************************************************)
(* The template alone, for every day and title                             *)
(***************************************************************************)
InitRender ==
    /\ rnDay \in 1..MaxDay
    /\ rnTitle \in Titles
    /\ rnOut = <<>>
    /\ rnPc = "args"
    /\ MainIdle
    /\ UfIdle

NextRender == RnFormat /\ UNCHANGED <<mainVars, ufVars>>

SpecRender == InitRender /\ [][NextRender]_vars

(***************************************************************************)
(* Properties of update_file (checked under SpecUpdate)                    *)
(***************************************************************************)
IsSentinelLine(l) == StartsWith(Strip(l.text), SENTINEL)

IsMarkerLine(l) == StartsWith(Strip(l.text), BEFORE)

HasSentinel(f) == \E i \in 1..Len(f) : IsSentinelLine(f[i])

\* the lines that get an insertion: marker lines at or after the first sentinel
MarkersAfter(f) ==
    {i \in 1..Len(f) : /\ IsMarkerLine(f[i])
                       /\ \E j \in 1..i : IsSentinelLine(f[j])}

FirstMarkerAfter(f) ==
    CHOOSE i \in MarkersAfter(f) : \A j \in MarkersAfter(f) : i <= j

\* the same lines, every terminator written as "\n"
LfEnded(f) ==
    [i \in 1..Len(f) |->
        Line(f[i].text, IF f[i].eol = "NONE" THEN "NONE" ELSE "LF")]

OnlyLf(f) == \A i \in 1..Len(f) : f[i].eol \in {"LF", "NONE"}

InsertAt(f, i, l) == SubSeq(f, 1, i - 1) \o <<l>> \o SubSeq(f, i, Len(f))

\* where line i of the input lands in the output
Landing(f, i) == i + Cardinality({j \in MarkersAfter(f) : j <= i})

NewLine == DispatchArm(HighDay)

\* C3, as stated: a file with a sentinel line followed by a marker line comes
\* out as the input, byte for byte, with exactly one line added, directly
\* before the first marker line after the sentinel.
C3_ExactlyOneInsertion ==
    ufPc = "closed" /\ MarkersAfter(ufOrig) # {} =>
        ufFile = InsertAt(ufOrig, FirstMarkerAfter(ufOrig), NewLine)

\* C3, amended: a file with a sentinel line followed by a marker line gets
\* one copy of the new line directly before each marker line at or after the
\* sentinel, the first of them directly before the first such marker line;
\* every original line keeps its text and its place in the order, with its
\* terminator written as "\n"; with one such marker line and "\n"
\* terminators the output is the input with exactly one line added.
C3_InsertionBeforeMarkers ==
    ufPc = "closed" /\ MarkersAfter(ufOrig) # {} =>
        LET m == FirstMarkerAfter(ufOrig)
            k == Cardinality(MarkersAfter(ufOrig))
        IN  /\ Len(ufFile) = Len(ufOrig) + k
            /\ ufFile[m] = NewLine
            /\ \A i \in 1..Len(ufOrig) :
                  /\ ufFile[Landing(ufOrig, i)] = LfEnded(ufOrig)[i]
                  /\ i \in MarkersAfter(ufOrig) =>
                        ufFile[Landing(ufOrig, i) - 1] = NewLine
            /\ k = 1 /\ OnlyLf(ufOrig) => ufFile = InsertAt(ufOrig, m, NewLine)

C3_Witness ==
    /\ ufPc = "closed"
    /\ Cardinality(MarkersAfter(ufOrig)) = 1
    /\ OnlyLf(ufOrig)
    /\ Len(ufOrig) = 3
    /\ Len(ufFile) = 4

\* C4, as stated: a file without a sentinel line is left byte for byte
\* unchanged, whatever its marker lines and terminators.
C4_NoSentinelUnchanged ==
    ufPc = "closed" /\ ~HasSentinel(ufOrig) => ufFile = ufOrig

\* C4, amended: a file without a sentinel line keeps all its lines, in
\* order, and gets no insertion, whatever marker lines it contains; every
\* line terminator is written back as "\n", so the file is byte for byte
\* unchanged exactly when it had no "\r\n" or "\r" terminators.
C4_NoSentinelNoInsertion ==
    ufPc = "closed" /\ ~HasSentinel(ufOrig) =>
        /\ ufFile = LfEnded(ufOrig)
        /\ (ufFile = ufOrig) <=> OnlyLf(ufOrig)

C4_Witness ==
    /\ ufPc = "closed"
    /\ ~HasSentinel(ufOrig)
    /\ \E i \in 1..Len(ufOrig) : IsMarkerLine(ufOrig[i])
    /\ Len(ufOrig) >= 2
    /\ ufFile = ufOrig

\* C10: `found` is true exactly from the first sentinel line on; one copy of
\* the new line is inserted, immediately before it, for each marker line at
\* or after the first sentinel line; marker lines before the sentinel get
\* none; with no marker after the sentinel the lines are written back as
\* they were read; the call always gets to its write.
C10_ArmedInsertions ==
    /\ ufPc = "loop" =>
          (ufFound <=> \E j \in 1..ufPos : IsSentinelLine(ufOrig[j]))
    /\ ufPc = "loop" => ENABLED (UfIter \/ UfWrite)
    /\ ufPc = "closed" =>
          /\ ufFound <=> HasSentinel(ufOrig)
          /\ Len(ufFile) = Len(ufOrig) + Cardinality(MarkersAfter(ufOrig))
          /\ ufFile = Flatten([i \in 1..Len(ufOrig) |->
                          IF i \in MarkersAfter(ufOrig)
                          THEN <<NewLine, LfEnded(ufOrig)[i]>>
                          ELSE <<LfEnded(ufOrig)[i]>>])
          /\ MarkersAfter(ufOrig) = {} => ufFile = LfEnded(ufOrig)

C10_Witness ==
    /\ ufPc = "closed"
    /\ Cardinality(MarkersAfter(ufOrig)) = 2
    /\ Len(ufFile) = Len(ufOrig) + 2

(***************************************************************************)
(* Properties of the template (checked under SpecRender)                   *)
(***************************************************************************)
\* the text of a range of lines, with the line ends in it
RECURSIVE JoinLines(_)
JoinLines(ls) ==
    IF ls = <<>> THEN <<>> ELSE Head(ls) \o <<"\n">> \o JoinLines(Tail(ls))

Section(text, first, last) == JoinLines(SubSeq(text, first, last))

Header(text) == Section(text, 1, 8)

PartOne(text) == Section(text, 14, 16)

PartTwo(text) == Section(text, 18, 20)

\* C7, as stated: the rendered text contains the day number in the
\* documentation header and in both placeholder sections.
C7_DayInHeaderAndBothParts ==
    rnPc = "rendered" =>
        /\ Contains(Header(rnOut), Str(rnDay))
        /\ Contains(PartOne(rnOut), Str(rnDay))
        /\ Contains(PartTwo(rnOut), Str(rnDay))

\* C7, amended: the rendered text contains the day number in the
\* documentation header, in the summary line and in the heading; the
\* part-one and part-two sections are fixed text that does not depend on
\* the day, so the day number occurs in them only where it is the part
\* number itself (1 in part one, 2 in part two).
C7_DayInHeaderOnly ==
    rnPc = "rendered" =>
        /\ Contains(rnOut[1], <<", Day ">> \o Str(rnDay) \o <<".">>)
        /\ StartsWith(rnOut[3], <<"//! # Day ">> \o Str(rnDay))
        /\ Contains(Header(rnOut), Str(rnDay))
        /\ Contains(PartOne(rnOut), Str(rnDay)) <=> rnDay = 1
        /\ Contains(PartTwo(rnOut), Str(rnDay)) <=> rnDay = 2
        /\ PartOne(rnOut) =
              <<"fn part", "1", "() ", "{", "\n",
                "    println!(\"Part ", "1", ": TODO\");", "\n", "}", "\n">>
        /\ PartTwo(rnOut) =
              <<"fn part", "2", "() ", "{", "\n",
                "    println!(\"Part ", "2", ": TODO\");", "\n", "}", "\n">>

C7_Witness ==
    /\ rnPc = "rendered"
    /\ rnDay = 12
    /\ rnTitle # <<>>
    /\ Contains(Header(rnOut), <<"1", "2">>)
    /\ ~Contains(PartOne(rnOut), <<"1", "2">>)

(***************************************************************************)
(* Properties of a run (checked under Spec)                                *)
(***************************************************************************)
\* nothing on disk differs from what this invocation found
FilesUntouched ==
    /\ modDirs = snap.modDirs
    /\ modRs = snap.modRs
    /\ mainRs = snap.mainRs
    /\ solutionMod = snap.solutionMod

FormatterNotRun == fmtExit = NoExit /\ stepCount["format"] = 0

Exited == pc = "exit"

LastPrinted == IF output = <<>> THEN "" ELSE output[Len(output)]

Printed(msg) == \E i \in 1..Len(output) : output[i] = msg

\* "y" or "yes" in any mix of cases
Affirmative(t) ==
    \/ Len(t) = 1 /\ t[1] \in {"y", "Y"}
    \/ Len(t) = 3 /\ t[1] \in {"y", "Y"} /\ t[2] \in {"e", "E"} /\ t[3] \in {"s", "S"}

Declined == existed /\ answer.kind = "line" /\ ~Affirmative(answer.text)

Agreed == existed /\ answer.kind = "line" /\ Affirmative(answer.text)

BadParent == parentDir # "dir" \/ ~cargoLock \/ ~cargoToml

\* lines of the module list that hold the declaration of the day of this run
DeclLines ==
    {i \in 1..Len(solutionMod.content) :
        Contains(solutionMod.content[i].text, ModDecl(day).text)}

\* C1: when the project root is missing, is no directory, or lacks
\* Cargo.lock or Cargo.toml, the run ends with status 1 and an error message
\* right after the validation, and touches nothing: no module, main.rs and
\* solutions/mod.rs as they were, no formatter run.
C1_BadParentNoMutation ==
    BadParent =>
        /\ FilesUntouched
        /\ FormatterNotRun
        /\ stepCount = NoSteps
        /\ pc \in {"validate", "exit"}
        /\ Exited => exitStatus = 1 /\ output = <<"error">>

C1_Witness ==
    /\ Exited
    /\ exitStatus = 1
    /\ parentDir = "dir" /\ cargoLock /\ ~cargoToml
    /\ srcDir = "dir" /\ solutionsDir /\ mainRs.exists /\ solutionMod.exists

\* C2: when the module path exists and the operator types anything but "y"
\* or "yes" (in any case; the empty answer included), the run ends at once
\* with status 0 and touches nothing: no file created, main.rs and
\* solutions/mod.rs as they were, no formatter run.
C2_DeclinedNoMutation ==
    Declined =>
        /\ Exited
        /\ exitStatus = 0
        /\ FilesUntouched
        /\ FormatterNotRun
        /\ stepCount = NoSteps

C2_Witness ==
    /\ Exited
    /\ existed
    /\ answer = Typed(<<>>)
    /\ exitStatus = 0
    /\ mainRs.exists

\* C5, as stated: when the module path exists and the operator confirms,
\* the run goes on as for a new path: mod.rs holds the rendered template and
\* the dispatch patch and the module-list append are run.
C5_ConfirmedOverwriteProceeds ==
    Exited /\ Agreed /\ mainRs.exists =>
        /\ modRs[ModName(day)] = File(Render(day, title))
        /\ stepCount["create"] = 1
        /\ stepCount["patch"] = 1
        /\ stepCount["append"] = 1

\* C6, as stated: a run for a day whose declaration an earlier run appended
\* and nobody removed, and which the operator lets continue, leaves two
\* occurrences of that declaration in the module list.
C6_RerunDuplicatesDeclaration ==
    Exited /\ day \in hist /\ Agreed => Cardinality(DeclLines) >= 2

\* C8: the formatter runs only when --no-fmt is absent and only after the
\* module was created, main.rs patched and the module list appended to; a run
\* that gets past that step has run it exactly when --no-fmt is absent; when
\* the formatter returns non-zero the run ends with status 1 and an error
\* message, without the closing confirmation, and the three mutations stay.
C8_FormatterLastAndNoRollback ==
    /\ ~FormatterNotRun =>
          /\ ~noFmt
          /\ fmtExit # NoExit
          /\ stepCount["create"] = 1
          /\ stepCount["patch"] = 1
          /\ stepCount["append"] = 1
    /\ pc = "finish" \/ Printed("success") => (stepCount["format"] = 1 <=> ~noFmt)
    /\ fmtExit \notin {NoExit, 0} =>
          /\ Exited
          /\ exitStatus = 1
          /\ LastPrinted = "error"
          /\ ~Printed("success")
          /\ modDirs = snap.modDirs \cup {ModName(day)}
          /\ modRs = [snap.modRs EXCEPT ![ModName(day)] = File(Render(day, title))]
          /\ mainRs = File(UpdateFile(snap.mainRs.content, SENTINEL, BEFORE,
                                      DispatchArm(day)))
          /\ solutionMod # snap.solutionMod
          /\ DeclLines # {}
          /\ Len(solutionMod.content) \in
                {Len(snap.solutionMod.content), Len(snap.solutionMod.content) + 1}

C8_Witness ==
    /\ Exited
    /\ fmtExit = 1
    /\ exitStatus = 1
    /\ ~noFmt
    /\ mainRs # snap.mainRs

\* C9: the steps of a run happen in the order validate, create module, patch
\* dispatch, append module list, format, each at most once and none before
\* the one before it is complete; a run ends once, with status 0 only after
\* the closing confirmation or a declined overwrite, and with status 1 and
\* an error message after a failed validation, a missing src directory or a
\* non-zero formatter exit.
C9_OneShotOrder ==
    /\ \A s \in Steps : stepCount[s] <= 1
    /\ stepCount["format"] = 1 => stepCount["append"] = 1
    /\ stepCount["append"] = 1 => stepCount["patch"] = 1
    /\ stepCount["patch"] = 1 => stepCount["create"] = 1
    /\ stepCount["create"] = 1 => ~BadParent /\ srcDir = "dir"
    /\ pc \in {"validate", "check_src", "check_mod", "create"} => stepCount = NoSteps
    /\ pc = "patch" => stepCount["create"] = 1 /\ stepCount["patch"] = 0
    /\ pc = "append" => stepCount["patch"] = 1 /\ stepCount["append"] = 0
    /\ pc = "format" => stepCount["append"] = 1 /\ stepCount["format"] = 0
    /\ pc = "finish" => stepCount["append"] = 1 /\ fmtExit \in {NoExit, 0}
    /\ Exited <=> exitStatus # NoExit
    /\ exitStatus \in {NoExit, 0, 1}
    /\ exitStatus = 0 =>
          \/ /\ LastPrinted = "success"
             /\ stepCount["create"] = 1
             /\ stepCount["patch"] = 1
             /\ stepCount["append"] = 1
             /\ stepCount["format"] = 1 <=> ~noFmt
          \/ Declined /\ stepCount = NoSteps /\ ~Printed("success")
    /\ Exited /\ (BadParent \/ srcDir # "dir" \/ fmtExit = 1) =>
          exitStatus = 1 /\ LastPrinted = "error"

C9_Witness ==
    /\ Exited
    /\ exitStatus = 0
    /\ LastPrinted = "success"
    /\ fmtExit = 0
    /\ run = 2

====
